---- MODULE Spec2Model ----
(***************************************************************************)
(* Model of build_defs.py: the batch job that looks up a definition for    *)
(* every term of words.json on Wiktionary (parse, then plain extract) and  *)
(* Wikipedia (summary), cleans it up and stores it in defs.json.           *)
(*                                                                         *)
(* Strings are tuples of one-character strings.  The texts the remote      *)
(* services answer with are drawn from small pools; the alphabet of these  *)
(* pools has " " as its only whitespace and holds none of  & < { [ '  , so *)
(* the rules of strip_markup / html.unescape about those characters leave  *)
(* every text of the model unchanged and are not spelled out.              *)
(***************************************************************************)
EXTENDS Integers, Sequences, FiniteSets, TLC

VARIABLES
    isList,      \* words.json holds a JSON array
    words,       \* the items of that array
    append,      \* --append
    save_every,  \* --save-every
    disk,        \* defs.json: [exists, valid, map]
    out,         \* the result mapping of build_defs (term -> definition)
    pc,          \* position of build_defs / main
    idx,         \* number of items of words the for loop has finished with
    term,        \* the term being looked up
    fetched,     \* what the fetchers returned for term
    definition,  \* the value of `definition` after the post-fix step
    nreq,        \* Http.get calls made for the current lookup
    stages,      \* the stages attempted for the current lookup, in order
                 \* (the five above are cleared when the loop moves on)
    last,        \* what the loop did with the last item it finished
    lastCkpt,    \* content of defs.json after its last completed write
    netUsed,     \* an HTTP request was issued in this run
    fileUsed,    \* defs.json was read or written in this run
    run,         \* 1: first invocation, 2: second invocation (--append)
    out1,        \* the mapping returned by the first invocation
    existing     \* the mapping build_defs loaded from defs.json

vars == <<isList, words, append, save_every, disk, out, pc, idx, term, fetched,
          definition, nreq, stages, last, lastCkpt, netUsed, fileUsed, run, out1, existing>>

\* ------------------------------------------------------------------ bounds
MaxWords == 2
MaxSaveEvery == 2

\* ------------------------------------------------------- program constants
MinDefLen == 12
SentenceMinLen == 20
ParenMax == 120
HTTP_OK == 200

\* ------------------------------------------------------------------- texts
T_empty == <<>>
T_a == <<"a">>
T_sp_a == <<" ", "a">>
T_b == <<"b">>
T_c == <<"c">>
T_blank == <<" ">>
H_italiano == <<"=", "=", "I", "t", "a", "l", "i", "a", "n", "o", "=", "=">>
H_latino == <<"=", "=", "L", "a", "t", "i", "n", "o", "=", "=">>
L_short == <<"#", " ", "g", "a", "t", "t", "o">>
L_example == <<"#", ":", " ", "u", "n", " ", "g", "a", "t", "t", "o", " ", "n", "e", "r", "o">>
L_sub == <<"#", "#", " ", "z", "o", "o", "l", "o", "g", "i", "a">>
L_e_un == <<"#", " ", "E", " ", "u", "n", " ", "f", "e", "l", "i", "n", "o", ".">>
L_long == <<"#", " ", " ", "F", "e", "l", "i", "n", "o", " ", "d", "o", "m", "e", "s", "t", "i", "c", "o", " ", "c", "o", "m", "u", "n", "e", ".", " ", "V", "i", "v", "e", " ", "i", "n", " ", "c", "a", "s", "a", ".">>
L_latin == <<"#", " ", "a", "n", "i", "m", "a", "l", "e", " ", "d", "o", "m", "e", "s", "t", "i", "c", "o", " ", "l", "a", "t", "i", "n", "o">>
X_heading == <<"=", " ", "a", " ", "=">>
X_ling == <<" ", "I", "n", " ", "l", "i", "n", "g", "u", "i", "s", "t", "i", "c", "a", ",", " ", " ">>
X_short == <<"b", "r", "e", "v", "e">>
P_paren == <<"(", "z", "o", "o", "l", ".", ")", " ", "E", " ", " ", "u", "n", " ", "f", "e", "l", "i", "n", "o", ".">>
P_desc == <<"a", "n", "i", "m", "a", "l", "e">>
P_long == <<"F", "e", "l", "i", "n", "o", " ", "d", "o", "m", "e", "s", "t", "i", "c", "o", " ", "c", "o", "m", "u", "n", "e", ".", " ", "V", "i", "v", "e", " ", "i", "n", " ", "c", "a", "s", "a", ".">>
D_long == <<"F", "e", "l", "i", "n", "o", " ", "d", "o", "m", "e", "s", "t", "i", "c", "o", " ", "c", "o", "m", "u", "n", "e", ".">>
W_italiano == <<"i", "t", "a", "l", "i", "a", "n", "o">>
W_istica == <<"i", "s", "t", "i", "c", "a">>

\* --------------------------------------------------------- character classes
UpperCase == <<"A","B","C","D","E","F","G","H","I","J","K","L","M","N","O","P","Q","R","S","T","U","V","W","X","Y","Z">>
LowerCase == <<"a","b","c","d","e","f","g","h","i","j","k","l","m","n","o","p","q","r","s","t","u","v","w","x","y","z">>

IsSpace(c) == c = " "

IsWord(c) ==
    \/ \E i \in 1..Len(UpperCase) : c = UpperCase[i] \/ c = LowerCase[i]
    \/ c \in {"0", "1", "2", "3", "4", "5", "6", "7", "8", "9", "_"}

ToLower(c) ==
    IF \E i \in 1..Len(UpperCase) : c = UpperCase[i]
    THEN LowerCase[CHOOSE i \in 1..Len(UpperCase) : c = UpperCase[i]]
    ELSE c

Terminators == {".", "!", "?"}

SetMin(S) == CHOOSE x \in S : \A y \in S : x <= y

\* s[i..] starts with p, letters compared without case
HasPrefixAt(s, i, p) ==
    /\ i >= 1
    /\ i + Len(p) - 1 <= Len(s)
    /\ \A k \in 1..Len(p) : ToLower(s[i + k - 1]) = ToLower(p[k])

\* first index >= i of s that holds no whitespace (Len(s) + 1 when none)
SkipSpaces(s, i) ==
    LET rest == {k \in i..Len(s) : ~IsSpace(s[k])}
    IN IF rest = {} THEN Len(s) + 1 ELSE SetMin(rest)

DropFirst(s, n) == SubSeq(s, n + 1, Len(s))

\* ------------------------------------------------------------------- util
RECURSIVE lstrip(_)
lstrip(s) == IF s # <<>> /\ IsSpace(Head(s)) THEN lstrip(Tail(s)) ELSE s

RECURSIVE rstrip(_)
rstrip(s) ==
    IF s # <<>> /\ IsSpace(s[Len(s)]) THEN rstrip(SubSeq(s, 1, Len(s) - 1)) ELSE s

\* str.strip()
strip(s) == rstrip(lstrip(s))

\* re.sub(r"\s+", " ", s): every run of whitespace becomes one space
RECURSIVE CollapseSpaces(_)
CollapseSpaces(s) ==
    IF s = <<>> THEN <<>>
    ELSE IF IsSpace(Head(s)) THEN <<" ">> \o CollapseSpaces(lstrip(s))
    ELSE <<Head(s)>> \o CollapseSpaces(Tail(s))

normalize_space(s) == strip(CollapseSpaces(s))

\* re.sub(r"^\((?:[^()]{1,120})\)\s*", "", text): a leading parenthetical
StripLeadingParen(s) ==
    IF s = <<>> \/ s[1] # "(" THEN s
    ELSE LET parens == {k \in 2..Len(s) : s[k] \in {"(", ")"}}
         IN IF parens = {} THEN s
            ELSE LET k == SetMin(parens)
                 IN IF s[k] = ")" /\ k - 2 >= 1 /\ k - 2 <= ParenMax
                    THEN DropFirst(s, SkipSpaces(s, k + 1) - 1)
                    ELSE s

strip_markup(text) == StripLeadingParen(normalize_space(text))

\* re.search(r"(.+?[.!?])(\s|$)", s): the end of the shortest such prefix
SentenceEnds(s) ==
    {j \in 2..Len(s) : s[j] \in Terminators /\ (j = Len(s) \/ IsSpace(s[j + 1]))}

first_sentence(s0, min_len) ==
    LET s == normalize_space(s0)
        ends == SentenceEnds(s)
    IN IF ends # {} /\ SetMin(ends) >= min_len
       THEN SubSeq(s, 1, SetMin(ends))
       ELSE s

\* re.sub(r"^(In\s+\w+istica,\s*)", "", d, flags=re.IGNORECASE)
StripInIstica(d) ==
    LET p == SkipSpaces(d, 3)
        nonword == {k \in p..Len(d) : ~IsWord(d[k])}
        q == IF nonword = {} THEN Len(d) ELSE SetMin(nonword) - 1
    IN IF /\ HasPrefixAt(d, 1, <<"i", "n">>)
          /\ p > 3
          /\ q - p + 1 >= Len(W_istica) + 1
          /\ HasPrefixAt(d, q - Len(W_istica) + 1, W_istica)
          /\ q + 1 <= Len(d)
          /\ d[q + 1] = ","
       THEN DropFirst(d, SkipSpaces(d, q + 2) - 1)
       ELSE d

\* re.sub(r"^\b(E|È|E')\b\s+", "", d, flags=re.IGNORECASE); the E' branch
\* cannot match (no word boundary between ' and whitespace)
StripLeadingE(d) ==
    IF Len(d) >= 2 /\ ToLower(d[1]) = "e" /\ IsSpace(d[2])
    THEN DropFirst(d, SkipSpaces(d, 2) - 1)
    ELSE d

\* step 3 of build_defs on a non-empty definition
PostFix(d) == normalize_space(StripLeadingE(StripInIstica(d)))

\* ------------------------------------------------------- optional strings
NoDef == [some |-> FALSE, s |-> <<>>]
Some(s) == [some |-> TRUE, s |-> s]

\* mutant: the length test only rejects the empty candidate
Accepted_anyLength(cand) == Len(cand) >= 1

\* `if len(cand) >= 12: return cand`
Accepted(cand) == Len(cand) >= MinDefLen

\* --------------------------------------------------------------- responses
\* What Http.get hands back: kind "raise" is requests raising once the
\* adapter's retries are used up; otherwise a response with a status code, a
\* body that is a JSON object or not, and the fields of that object.
Wikitexts ==
    { <<>>,
      <<L_short>>,
      <<H_latino, L_latin, H_italiano, L_example, L_short, L_sub, L_e_un>>,
      <<H_italiano, L_long, H_latino, L_latin>> }

ParseResponses ==
    { [kind |-> "raise", status |-> 0, json |-> FALSE, error |-> FALSE, parse |-> FALSE, wikitext |-> <<>>],
      [kind |-> "http", status |-> 404, json |-> TRUE, error |-> FALSE, parse |-> FALSE, wikitext |-> <<>>],
      [kind |-> "http", status |-> HTTP_OK, json |-> FALSE, error |-> FALSE, parse |-> FALSE, wikitext |-> <<>>],
      [kind |-> "http", status |-> HTTP_OK, json |-> TRUE, error |-> TRUE, parse |-> FALSE, wikitext |-> <<>>],
      [kind |-> "http", status |-> HTTP_OK, json |-> TRUE, error |-> FALSE, parse |-> FALSE, wikitext |-> <<>>] }
    \cup { [kind |-> "http", status |-> HTTP_OK, json |-> TRUE, error |-> FALSE, parse |-> TRUE, wikitext |-> w] :
             w \in Wikitexts }

\* the "pages" of an extracts answer: one extract (a list of lines) per page
PageLists ==
    { <<>>,
      << <<>> >>,
      << <<X_heading, X_short>>, <<X_heading, X_ling>> >>,
      << <<T_blank, P_long>> >> }

ExtractResponses ==
    { [kind |-> "raise", status |-> 0, json |-> FALSE, pages |-> <<>>],
      [kind |-> "http", status |-> 404, json |-> TRUE, pages |-> <<>>],
      [kind |-> "http", status |-> HTTP_OK, json |-> FALSE, pages |-> <<>>] }
    \cup { [kind |-> "http", status |-> HTTP_OK, json |-> TRUE, pages |-> pl] : pl \in PageLists }

SummaryResponses ==
    { [kind |-> "raise", status |-> 0, json |-> FALSE, type |-> "standard", extract |-> <<>>, description |-> <<>>],
      [kind |-> "http", status |-> 404, json |-> TRUE, type |-> "standard", extract |-> <<>>, description |-> <<>>],
      [kind |-> "http", status |-> HTTP_OK, json |-> FALSE, type |-> "standard", extract |-> <<>>, description |-> <<>>],
      [kind |-> "http", status |-> HTTP_OK, json |-> TRUE, type |-> "disambiguation", extract |-> P_long, description |-> <<>>],
      [kind |-> "http", status |-> HTTP_OK, json |-> TRUE, type |-> "standard", extract |-> <<>>, description |-> <<>>],
      [kind |-> "http", status |-> HTTP_OK, json |-> TRUE, type |-> "standard", extract |-> <<>>, description |-> P_desc],
      [kind |-> "http", status |-> HTTP_OK, json |-> TRUE, type |-> "standard", extract |-> P_paren, description |-> P_desc],
      [kind |-> "http", status |-> HTTP_OK, json |-> TRUE, type |-> "standard", extract |-> P_long, description |-> <<>>] }

\* ---------------------------------------------------------------- fetchers
\* result of one stage: an exception leaves the fetcher, or the stage returns
\* a definition or nothing
Raised == [exc |-> TRUE, def |-> NoDef]
Nothing == [exc |-> FALSE, def |-> NoDef]
Found(s) == [exc |-> FALSE, def |-> Some(s)]

\* end of the first match of ==\s*Italiano\s*== in a line, 0 when none
ItalianHeadingEnd(ln) ==
    LET ends == {k + 1 : k \in {k \in 1..Len(ln) :
                    \E i \in 1..Len(ln) :
                        /\ HasPrefixAt(ln, i, <<"=", "=">>)
                        /\ HasPrefixAt(ln, SkipSpaces(ln, i + 2), W_italiano)
                        /\ k = SkipSpaces(ln, SkipSpaces(ln, i + 2) + Len(W_italiano))
                        /\ HasPrefixAt(ln, k, <<"=", "=">>)}}
    IN IF ends = {} THEN 0 ELSE SetMin(ends)

ContainsEqEq(ln, from) == \E i \in from..Len(ln) : HasPrefixAt(ln, i, <<"=", "=">>)

\* \n==[^=].*?== : line n opens the next level-2 section
IsSectionEnd(w, n) ==
    /\ n >= 2
    /\ Len(w[n]) >= 3
    /\ HasPrefixAt(w[n], 1, <<"=", "=">>)
    /\ w[n][3] # "="
    /\ \/ ContainsEqEq(w[n], 4)
       \/ \E m \in (n + 1)..Len(w) : ContainsEqEq(w[m], 1)

\* the body of the section 'Italiano', the whole text when there is none
ItalianBody(w) ==
    LET hs == {n \in 1..Len(w) : ItalianHeadingEnd(w[n]) > 0}
    IN IF hs = {} THEN w
       ELSE LET n0 == SetMin(hs)
                es == {n \in (n0 + 1)..Len(w) : IsSectionEnd(w, n)}
                e == IF es = {} THEN Len(w) + 1 ELSE SetMin(es)
            IN << DropFirst(w[n0], ItalianHeadingEnd(w[n0])) >> \o SubSeq(w, n0 + 1, e - 1)

RECURSIVE LStripHash(_)
LStripHash(ln) == IF ln # <<>> /\ Head(ln) = "#" THEN LStripHash(Tail(ln)) ELSE ln

IsDefinitionLine(ln) ==
    /\ ln # <<>>
    /\ ln[1] = "#"
    /\ ~(Len(ln) >= 2 /\ ln[2] \in {":", "*", "#"})

DefinitionCandidate(ln) ==
    first_sentence(strip_markup(strip(LStripHash(ln))), SentenceMinLen)

\* stage 1 on a wikitext: the first definition line whose candidate is accepted
StructuredDefinition(w) ==
    LET body == ItalianBody(w)
        good == {n \in 1..Len(body) :
                    /\ IsDefinitionLine(strip(body[n]))
                    /\ Accepted(DefinitionCandidate(strip(body[n])))}
    IN IF good = {} THEN NoDef
       ELSE Some(DefinitionCandidate(strip(body[SetMin(good)])))

ParseStage(r) ==
    IF r.kind = "raise" THEN Raised
    ELSE IF r.status # HTTP_OK THEN Nothing
    ELSE IF ~r.json THEN Raised
    ELSE IF r.error \/ ~r.parse \/ r.wikitext = <<>> THEN Nothing
    ELSE [exc |-> FALSE, def |-> StructuredDefinition(r.wikitext)]

\* the lines of an extract that are kept: not blank, not starting with '='
ExtractLines(ext) ==
    SelectSeq(ext, LAMBDA ln : strip(ln) # <<>> /\ ~(ln # <<>> /\ ln[1] = "="))

ExtractCandidate(ext) ==
    normalize_space(first_sentence(strip(ExtractLines(ext)[1]), SentenceMinLen))

ExtractStage(r) ==
    IF r.kind = "raise" THEN Raised
    ELSE IF r.status # HTTP_OK THEN Nothing
    ELSE IF ~r.json THEN Raised
    ELSE LET good == {n \in 1..Len(r.pages) :
                         /\ ExtractLines(r.pages[n]) # <<>>
                         /\ Accepted(ExtractCandidate(r.pages[n]))}
         IN IF good = {} THEN Nothing
            ELSE Found(ExtractCandidate(r.pages[SetMin(good)]))

SummaryCandidate(r) ==
    first_sentence(strip_markup(IF r.extract # <<>> THEN r.extract ELSE r.description),
                   SentenceMinLen)

SummaryStage(r) ==
    IF r.kind = "raise" THEN Raised
    ELSE IF r.status # HTTP_OK THEN Nothing
    ELSE IF ~r.json THEN Raised
    ELSE IF r.type = "disambiguation" THEN Nothing
    ELSE IF r.extract = <<>> /\ r.description = <<>> THEN Nothing
    ELSE IF Accepted(SummaryCandidate(r)) THEN Found(SummaryCandidate(r))
    ELSE Nothing

\* ---------------------------------------------------------------- pipeline
EmptyMap == [t \in {} |-> <<>>]

Put(m, k, v) == [x \in DOMAIN m \cup {k} |-> IF x = k THEN v ELSE m[x]]

\* an item of words.json: a JSON string, or any other JSON value
Str(s) == [str |-> TRUE, s |-> s]
NonString == [str |-> FALSE, s |-> <<>>]
Items == {Str(T_a), Str(T_sp_a), Str(T_b), Str(T_empty), Str(T_blank), NonString}
WordLists == UNION {[1..k -> Items] : k \in 0..MaxWords}

\* defs.json
NoFile == [exists |-> FALSE, valid |-> FALSE, map |-> EmptyMap]
Truncated == [exists |-> TRUE, valid |-> FALSE, map |-> EmptyMap]
File(m) == [exists |-> TRUE, valid |-> TRUE, map |-> m]
PriorFiles ==
    { NoFile, Truncated,
      File(Put(EmptyMap, T_a, D_long)),
      File(Put(Put(EmptyMap, T_c, D_long), T_b, <<>>)) }

Running ==
    {"start", "load", "loop", "parse", "extract", "summary", "store",
     "checkpoint", "ckpt_write", "final_write"}

Init ==
    /\ isList \in BOOLEAN
    /\ words \in (IF isList THEN WordLists ELSE {<<>>})
    /\ append \in BOOLEAN
    /\ save_every \in 0..MaxSaveEvery
    /\ disk \in PriorFiles
    /\ lastCkpt = disk
    /\ out = EmptyMap
    /\ pc = "start"
    /\ idx = 0
    /\ term = <<>>
    /\ fetched = NoDef
    /\ definition = NoDef
    /\ nreq = 0
    /\ stages = <<>>
    /\ last = "none"
    /\ netUsed = FALSE
    /\ fileUsed = FALSE
    /\ run = 1
    /\ out1 = EmptyMap
    /\ existing = EmptyMap

\* mutant: the input is validated only after defs.json has been opened
Validate_afterRead ==
    /\ pc = "start"
    /\ pc' = IF isList THEN "load" ELSE "error"
    /\ fileUsed' = TRUE
    /\ UNCHANGED <<isList, words, append, save_every, disk, out, idx, term, fetched,
                   definition, nreq, stages, last, lastCkpt, netUsed, run, out1, existing>>

\* `if not isinstance(words, list): raise ValueError(...)`
Validate ==
    /\ pc = "start"
    /\ pc' = IF isList THEN "load" ELSE "error"
    /\ UNCHANGED <<isList, words, append, save_every, disk, out, idx, term, fetched,
                   definition, nreq, stages, last, lastCkpt, netUsed, fileUsed, run, out1, existing>>

\* mutant: the prior output is never loaded
LoadExisting_ignored(ap, d) == EmptyMap

\* `existing = json.loads(out_path.read_text())`, {} when that raises
LoadExisting(ap, d) == IF ap /\ d.exists /\ d.valid THEN d.map ELSE EmptyMap

Load ==
    /\ pc = "load"
    /\ existing' = LoadExisting(append, disk)
    /\ out' = existing'
    /\ fileUsed' = (fileUsed \/ (append /\ disk.exists))
    /\ idx' = 0
    /\ pc' = "loop"
    /\ UNCHANGED <<isList, words, append, save_every, disk, term, fetched, definition,
                   nreq, stages, last, lastCkpt, netUsed, run, out1>>

\* `if not raw or not isinstance(raw, str): continue`
IsTerm(raw) == raw.str /\ raw.s # <<>>

\* mutant: the term is the raw item, not stripped
Term_raw(s) == s

\* `term = raw.strip()`
Term(s) == strip(s)

\* mutant: the truth test on the stored value is inverted
AlreadyPresent_inverted(o, t) == t \in DOMAIN o /\ o[t] = <<>>

\* `if term in out and out[term]: continue`
AlreadyPresent(o, t) == t \in DOMAIN o /\ o[t] # <<>>

\* one iteration of the for loop up to the first request (or to `continue`)
LoopStep ==
    /\ pc = "loop"
    /\ idx < Len(words)
    /\ LET raw == words[idx + 1]
       IN IF ~IsTerm(raw)
          THEN /\ idx' = idx + 1
               /\ last' = "invalid"
               /\ UNCHANGED <<pc, term, fetched, definition, nreq, stages>>
          ELSE IF AlreadyPresent(out, Term(raw.s))
          THEN /\ idx' = idx + 1
               /\ last' = "present"
               /\ UNCHANGED <<pc, term, fetched, definition, nreq, stages>>
          ELSE /\ term' = Term(raw.s)
               /\ pc' = "parse"
               /\ fetched' = NoDef
               /\ definition' = NoDef
               /\ nreq' = 0
               /\ stages' = <<>>
               /\ UNCHANGED <<idx, last>>
    /\ UNCHANGED <<isList, words, append, save_every, disk, out, lastCkpt, netUsed,
                   fileUsed, run, out1, existing>>

\* every result a stage can have, over the answers of the remote service
ParseOutcomes == {ParseStage(r) : r \in ParseResponses}
ExtractOutcomes == {ExtractStage(r) : r \in ExtractResponses}
SummaryOutcomes == {SummaryStage(r) : r \in SummaryResponses}

\* `if not definition:` in build_defs
NeedsFallback(d) == ~d.some \/ d.s = <<>>

\* a stage's request and what the fetcher does with the answer
Attempt(n, o, next) ==
    /\ nreq' = nreq + 1
    /\ netUsed' = TRUE
    /\ stages' = Append(stages, [n |-> n, ok |-> o.def.some])
    /\ IF o.exc
       THEN pc' = "crashed" /\ UNCHANGED fetched
       ELSE /\ fetched' = o.def
            /\ pc' = IF o.def.some THEN (IF NeedsFallback(o.def) THEN "summary" ELSE "store")
                     ELSE next
    /\ UNCHANGED <<isList, words, append, save_every, disk, out, idx, term, definition,
                   last, lastCkpt, fileUsed, run, out1, existing>>

\* fetch_wiktionary_definition, action=parse
FetchParse ==
    /\ pc = "parse"
    /\ \E o \in ParseOutcomes : Attempt(1, o, "extract")

\* fetch_wiktionary_definition, action=query&prop=extracts
FetchExtract ==
    /\ pc = "extract"
    /\ \E o \in ExtractOutcomes : Attempt(2, o, "summary")

\* fetch_wikipedia_summary
FetchSummary ==
    /\ pc = "summary"
    /\ \E o \in SummaryOutcomes : Attempt(3, o, "store")

\* the value build_defs stores for what the fetchers returned
StoredValue(f) ==
    IF NeedsFallback(f) THEN <<>> ELSE PostFix(f.s)

\* post-fix and `out[term] = ...`
Store ==
    /\ pc = "store"
    /\ definition' = (IF NeedsFallback(fetched) THEN fetched ELSE Some(PostFix(fetched.s)))
    /\ out' = Put(out, term, StoredValue(fetched))
    /\ last' = "stored"
    /\ pc' = "checkpoint"
    /\ UNCHANGED <<isList, words, append, save_every, disk, idx, term, fetched, nreq,
                   stages, lastCkpt, netUsed, fileUsed, run, out1, existing>>

\* the iteration is over: its locals are dead until the next lookup assigns
\* them, and the model clears them (with the lookup's bookkeeping)
Forget ==
    /\ term' = <<>>
    /\ fetched' = NoDef
    /\ definition' = NoDef
    /\ nreq' = 0
    /\ stages' = <<>>

\* `if save_every and (idx + 1) % save_every == 0`
CheckpointDue(se, i) == se # 0 /\ (i + 1) % se = 0

\* the incremental save is reached: write_text opens (truncates) defs.json
Checkpoint ==
    /\ pc = "checkpoint"
    /\ IF CheckpointDue(save_every, idx)
       THEN /\ disk' = Truncated
            /\ fileUsed' = TRUE
            /\ pc' = "ckpt_write"
            /\ UNCHANGED <<idx, term, fetched, definition, nreq, stages>>
       ELSE /\ idx' = idx + 1
            /\ pc' = "loop"
            /\ Forget
            /\ UNCHANGED <<disk, fileUsed>>
    /\ UNCHANGED <<isList, words, append, save_every, out, last, lastCkpt, netUsed,
                   run, out1, existing>>

\* mutant: unresolved entries are left out of the file
Snapshot_resolvedOnly(o) ==
    [exists |-> TRUE, valid |-> TRUE,
     map |-> [t \in {x \in DOMAIN o : o[x] # <<>>} |-> o[t]]]

\* what a completed write_text leaves in defs.json
Snapshot(o) == File(o)

CheckpointWritten ==
    /\ pc = "ckpt_write"
    /\ disk' = Snapshot(out)
    /\ lastCkpt' = Snapshot(out)
    /\ idx' = idx + 1
    /\ pc' = "loop"
    /\ Forget
    /\ UNCHANGED <<isList, words, append, save_every, out, last, netUsed, fileUsed,
                   run, out1, existing>>

\* the loop is over: the final write_text opens (truncates) defs.json
FinalWrite ==
    /\ pc = "loop"
    /\ idx = Len(words)
    /\ disk' = Truncated
    /\ fileUsed' = TRUE
    /\ pc' = "final_write"
    /\ UNCHANGED <<isList, words, append, save_every, out, idx, term, fetched, definition,
                   nreq, stages, last, lastCkpt, netUsed, run, out1, existing>>

FinalWritten ==
    /\ pc = "final_write"
    /\ disk' = Snapshot(out)
    /\ lastCkpt' = Snapshot(out)
    /\ pc' = "done"
    /\ UNCHANGED <<isList, words, append, save_every, out, idx, term, fetched, definition,
                   nreq, stages, last, netUsed, fileUsed, run, out1, existing>>

\* KeyboardInterrupt reaches main, which exits with status 1: the process
\* and its memory are gone, defs.json stays as it is
Interrupt ==
    /\ pc \in Running
    /\ pc' = "interrupted"
    /\ out' = EmptyMap
    /\ existing' = EmptyMap
    /\ idx' = 0
    /\ last' = "none"
    /\ Forget
    /\ UNCHANGED <<isList, words, append, save_every, disk, lastCkpt, netUsed, fileUsed,
                   run, out1>>

\* the job is run again with --append over the same words.json and defs.json
Rerun ==
    /\ pc = "done"
    /\ run = 1
    /\ run' = 2
    /\ out1' = out
    /\ append' = TRUE
    /\ out' = EmptyMap
    /\ existing' = EmptyMap
    /\ pc' = "start"
    /\ idx' = 0
    /\ term' = <<>>
    /\ fetched' = NoDef
    /\ definition' = NoDef
    /\ nreq' = 0
    /\ stages' = <<>>
    /\ last' = "none"
    /\ netUsed' = FALSE
    /\ fileUsed' = FALSE
    /\ UNCHANGED <<isList, words, save_every, disk, lastCkpt>>

Next ==
    \/ Validate
    \/ Load
    \/ LoopStep
    \/ FetchParse
    \/ FetchExtract
    \/ FetchSummary
    \/ Store
    \/ Checkpoint
    \/ CheckpointWritten
    \/ FinalWrite
    \/ FinalWritten
    \/ Interrupt
    \/ Rerun

Spec == Init /\ [][Next]_vars

\* ------------------------------------------------------------------ claims
InputTerms == {strip(words[i].s) : i \in {i \in 1..Len(words) : IsTerm(words[i])}}
InLookup == pc \in {"parse", "extract", "summary", "store", "checkpoint", "ckpt_write"}
Resolved(o) == {t \in DOMAIN o : o[t] # <<>>}

\* C1: while a run lasts, a term that is in the mapping with a non-empty
\* definition is never made the object of a lookup, no request is issued for
\* it, and its value does not change.
C1_ResolvedNeverRefetched ==
    [][(run' = run /\ pc' # "interrupted") =>
         \A t \in Resolved(out) :
            /\ t \in DOMAIN out' /\ out'[t] = out[t]
            /\ ~(pc' = "parse" /\ pc = "loop" /\ term' = t)
            /\ ~(nreq' = nreq + 1 /\ term = t)]_vars

\* C1 witness: an item was skipped because its (stripped) term was stored
\* with a non-empty definition earlier in the same run, nothing being loaded.
C1_Witness ==
    /\ pc = "loop" /\ last = "present" /\ idx >= 2
    /\ existing = EmptyMap
    /\ Term(words[idx].s) \in Resolved(out)

\* C2 (as claimed): the second run in append mode over the same input ends
\* with a mapping identical to the first run's.
C2_RerunIdentical == (run = 2 /\ pc = "done") => out = out1

\* C2 (amended): in the second run no term resolved by the first run is
\* looked up, and the run ends with the same keys and with every non-empty
\* value of the first run unchanged.
C2_RerunKeepsResolved ==
    run = 2 =>
        /\ InLookup => term \notin Resolved(out1)
        /\ pc = "done" =>
              /\ DOMAIN out = DOMAIN out1
              /\ \A t \in Resolved(out1) : out[t] = out1[t]

\* C2 witness: a second run ended, having kept a resolved entry and having
\* resolved an entry the first run left empty.
C2_Witness ==
    /\ run = 2 /\ pc = "done"
    /\ Resolved(out1) # {}
    /\ \E t \in DOMAIN out1 : out1[t] = <<>> /\ out[t] # <<>>

\* C3 (as claimed): when build_defs completes, every string of the input
\* list is a key of the mapping.
C3_EveryInputStringIsKey ==
    pc = "done" => \A i \in 1..Len(words) : words[i].str => words[i].s \in DOMAIN out

\* C3 (amended): when build_defs completes, every non-empty string of the
\* input is represented by the key that is its stripped form, and when no
\* prior mapping was loaded the keys are exactly these stripped forms.
C3_EveryTermHasItsKey ==
    pc = "done" =>
        /\ \A i \in 1..Len(words) : IsTerm(words[i]) => strip(words[i].s) \in DOMAIN out
        /\ existing = EmptyMap => DOMAIN out = InputTerms

\* C3 witness: a run completed over a list holding an item with surrounding
\* whitespace and an item that is no term.
C3_Witness ==
    /\ pc = "done"
    /\ \E i \in 1..Len(words) : IsTerm(words[i]) /\ strip(words[i].s) # words[i].s
    /\ \E i \in 1..Len(words) : ~IsTerm(words[i])

\* C4: with save_every = N > 0, whenever the loop has finished a multiple of
\* N items and the run has stored something, defs.json is a complete
\* snapshot of the mapping at that point.
C4_CheckpointEveryN ==
    (pc = "loop" /\ save_every > 0 /\ idx > 0 /\ idx % save_every = 0 /\ out # existing)
        => disk = File(out)

\* C5: a fetch failure never aborts the run.
C5_FetchFailureNotFatal == pc # "crashed"

\* C6: after an interruption defs.json is the last completely written
\* snapshot (or the file as it was found, when none was written).
C6_InterruptKeepsCheckpoint == pc = "interrupted" => disk = lastCkpt

\* C7: when build_defs completes, defs.json holds exactly the returned
\* mapping, which has every loaded key, and every loaded entry whose term is
\* not in the input is unchanged.
C7_FinalFileIsMapping ==
    pc = "done" =>
        /\ disk.exists /\ disk.valid /\ disk.map = out
        /\ \A t \in DOMAIN existing :
              /\ t \in DOMAIN out
              /\ t \notin InputTerms => out[t] = existing[t]

\* C7 witness: a run with periodic checkpoints disabled completed in append
\* mode, with a loaded entry that is not in the input, an entry stored in this
\* run, and an unresolved entry.
C7_Witness ==
    /\ pc = "done" /\ save_every = 0 /\ append
    /\ DOMAIN existing \ InputTerms # {}
    /\ DOMAIN out \ DOMAIN existing # {}
    /\ \E t \in DOMAIN out : out[t] = <<>>

\* C8: an input that is no array ends build_defs in the validation error,
\* with no HTTP request issued and defs.json neither read nor written.
C8_NonArrayFailsFirst ==
    /\ ~isList => pc \in {"start", "error", "interrupted"}
    /\ pc = "error" => ~isList /\ ~netUsed /\ ~fileUsed /\ disk = lastCkpt

\* C8 witness: the validation error was raised in append mode with a
\* defs.json in place.
C8_Witness == pc = "error" /\ append /\ disk.exists /\ disk.valid

\* C9: the stages of a lookup are attempted in the order 1, 2, 3, one
\* request each, a later stage only after every earlier one accepted nothing,
\* and a lookup ends only with an accepted definition or after stage 3.
C9_StagesInOrder ==
    /\ nreq = Len(stages)
    /\ Len(stages) <= 3
    /\ \A i \in 1..Len(stages) :
          /\ stages[i].n = i
          /\ i < Len(stages) => ~stages[i].ok
    /\ pc \in {"store", "checkpoint", "ckpt_write", "crashed"} =>
          /\ Len(stages) >= 1
          /\ stages[Len(stages)].ok \/ Len(stages) = 3

\* C10 (as claimed): the value stored for a looked-up term is empty or at
\* least 12 characters long, and is not empty when a fetcher accepted a
\* definition.
C10_StoredLongOrEmpty ==
    pc = "checkpoint" =>
        /\ out[term] = <<>> \/ Len(out[term]) >= MinDefLen
        /\ fetched.some => out[term] # <<>>

\* C10 (amended): what a fetcher returns is at least 12 characters long; the
\* stored value is that text after the post-fix step, never longer than it,
\* and the empty string when no fetcher accepted a definition.
C10_AcceptedLongBeforePostFix ==
    pc \in {"store", "checkpoint", "ckpt_write"} =>
        /\ fetched.some => Len(fetched.s) >= MinDefLen
        /\ pc # "store" =>
              /\ ~fetched.some => out[term] = <<>>
              /\ fetched.some =>
                    /\ out[term] = PostFix(fetched.s)
                    /\ Len(out[term]) <= Len(fetched.s)

\* C10 witness: an accepted definition was stored shorter than 12 characters.
C10_Witness ==
    /\ pc = "checkpoint" /\ fetched.some
    /\ out[term] # <<>> /\ Len(out[term]) < MinDefLen

====
